---- MODULE Spec2Model ----
(***************************************************************************)
(* One user turn of KrishnaAdvanceWorkflow: the LangGraph loop             *)
(* prompt_builder -> thinker -> parse_actions -> execute_actions -> router *)
(* driven by the drive_workflow task, and the consumer loop of run() that  *)
(* drains state.stream_queue.                                              *)
(*                                                                         *)
(* Text is a sequence of atoms (the empty string is << >>), so that        *)
(* concatenation and emptiness tests are those of the code.  A model       *)
(* response is the sequence of its delimited regions (blocks).             *)
(***************************************************************************)
EXTENDS Integers, Sequences, FiniteSets, TLC

\* ------------------------------------------------------------------ bounds
\* Cap on the number of thinker steps explored in the free scenario.
MaxIter == 3
\* Largest number of rows a store holds before a paginated search.
MaxStored == 21
\* Largest page number a caller asks for.
MaxPage == 4
\* Largest number of writes to a memory store.
MaxMemOps == 3
\* Largest number of times the process is started again.
MaxRestarts == 1
\* Longest text, in pieces, given to a serialized action.
MaxText == 2
\* Largest number of observations of a turn that is rendered.
MaxObservations == 12
\* Largest number of chunks the model streams during a single-pass turn.
MaxChunks == 2
\* Largest number of calls made on the tool registry.
MaxRegistryOps == 4

\* ------------------------------------------------------- program constants
\* prompt_builder: "if state.epochs > 20" adds the CRITICAL warning.
HardCeiling == 20
\* run(): app.astream(state, {"recursion_limit": 100}).
RecursionLimit == 100

\* ------------------------------------------------------------------- data
NEED_FINAL == "need_final"
NEED_TOOL == "need_tool"
ERROR == "error"

\* StreamStep values used by the workflow, and the end-of-stream sentinel.
ANALYSIS == "analysis"
PLANNING == "planning"
FINAL_RESPONSE == "final_response"

StreamChunk(content, step) == [content |-> content, step |-> step]
None == [content |-> << >>, step |-> "None"]

SingleMessage(message, role) == [content |-> message, role |-> role]

ActionResult(thought, action, result) ==
    [thought |-> thought, action |-> action, result |-> result]

\* Action.params as the keys the modelled tools read; "" / << >> is an absent key.
Params(message, filepath, query) ==
    [message |-> message, filepath |-> filepath, query |-> query]

Action(name, params, request_heartbeat) ==
    [name |-> name, params |-> params, request_heartbeat |-> request_heartbeat]

NoAction == Action("", Params(<< >>, "", ""), FALSE)

\* Regions of a model response.
MonologueBlock(text) == [tag |-> "inner_monologue", text |-> text, valid |-> FALSE, action |-> NoAction]
ActionBlock(action) == [tag |-> "action", text |-> << >>, valid |-> TRUE, action |-> action]
MalformedActionBlock == [tag |-> "action", text |-> << >>, valid |-> FALSE, action |-> NoAction]

\* ------------------------------------------------------------ environment
user_message == <<"what is 2+2">>

\* Tool names registered by KrishnaAdvanceWorkflowHelper.__init__ that the
\* scenarios use.
tools_by_name == {"send_message", "conversation_search"}

\* Files on disk: path -> lines.  Any other path does not exist.
Files == [f1 |-> <<"line1", "line2">>]
FileExists(path) == path \in DOMAIN Files

SendM1 == Action("send_message", Params(<<"m1">>, "", ""), FALSE)
SendM1Heartbeat == Action("send_message", Params(<<"m1">>, "", ""), TRUE)
SendEmpty == Action("send_message", Params(<< >>, "", ""), FALSE)
SendFile == Action("send_message", Params(<< >>, "f1", ""), FALSE)
SendMissingFile == Action("send_message", Params(<< >>, "f0", ""), FALSE)
SearchQ1 == Action("conversation_search", Params(<< >>, "", "q1"), TRUE)
SearchQ1NoHeartbeat == Action("conversation_search", Params(<< >>, "", "q1"), FALSE)
SearchNoQuery == Action("conversation_search", Params(<< >>, "", ""), TRUE)
UnknownTool == Action("web_search", Params(<< >>, "", "q1"), TRUE)

\* What the external collaborators do during one iteration: "ok", the tool
\* handler's I/O fails ("handler_raise"), or tools_manager.parse_tool_calls
\* raises ("parser_raise").
Step(out, collab) == [out |-> out, collab |-> collab]

\* Model responses explored in the free scenario.
FreeMenu ==
    { Step(<<ActionBlock(a)>>, "ok") :
        a \in {SendM1, SendM1Heartbeat, SendEmpty, SendFile, SendMissingFile,
               SearchQ1, SearchQ1NoHeartbeat, SearchNoQuery, UnknownTool} }
    \cup { Step(<<ActionBlock(SearchQ1)>>, "handler_raise"),
           Step(<<MonologueBlock(<<"t1">>), ActionBlock(SearchQ1)>>, "ok"),
           Step(<<ActionBlock(SearchQ1), ActionBlock(SendM1)>>, "ok"),
           Step(<< >>, "ok"),
           Step(<<MalformedActionBlock>>, "ok"),
           Step(<<MalformedActionBlock>>, "parser_raise") }

\* Model responses of the continuation scenario: the model keeps asking for
\* a heartbeat, or leaves the loop.
LoopMenu ==
    { Step(<<ActionBlock(SearchQ1)>>, "ok"),
      Step(<<ActionBlock(SendM1)>>, "ok"),
      Step(<<ActionBlock(SearchQ1NoHeartbeat)>>, "ok"),
      Step(<<MalformedActionBlock>>, "parser_raise") }

\* Replies of the model to the error_handler prompt, as stream fragments.
ErrorReplies == { <<"e1">>, <<"e1", "e2">> }

\* Messages the repository holds before the turn.
StoredHistories == { << >>, <<SingleMessage(<<"old">>, "assistant")>> }

VARIABLES
    scenario,           \* "free" or "loop": which menu the model answers from
    pc,                 \* node the graph runs next; "finally"; "done"
    task,               \* drive_workflow task: "running", "ok", "exception"
    steps,              \* LangGraph super-steps executed
    epochs, retry, phase, thoughts, observations, last_tool_call,
    llm_response, prompt,
    stream_queue,
    session_messages,   \* SlidingWindowConversationManager.session_messages
    repository,         \* messages held by the message repository
    collab,             \* collaborator behaviour of the current iteration
    cpc,                \* consumer of run(): "get", "await_task", "returned", "raised", "closed"
    yielded,            \* chunks run() has yielded, in order
    \* history
    produced,           \* every item put on stream_queue, in order
    responses,          \* the menu entry answered at every thinker step, in order
    prompts,            \* prompt of every thinker step, in order
    model_calls,        \* steps that asked the model (thinker, error_handler)
    persist_calls,      \* handle_final_response calls
    dispatch,           \* the last execute_actions step
    \* memory stores
    discipline,         \* memory manager in use: "none", "v1", "overflow", "v2", "v3"
    memory_entries,     \* rows of table memory_entries, oldest first
    message_entities,   \* rows of the user's messages
    archival_memory,    \* AgentState.archival_memory
    next_id,            \* ids handed out by uuid4()
    clock,              \* value of datetime.now() when the models were imported
    mem_result,         \* what the last memory operation returned or raised
    mem_ops,            \* memory writes and process restarts performed
    \* functions applied to one input
    fn,                 \* the function under study, "none" while a store or a turn runs
    fn_input,           \* its argument
    fn_output,          \* what it returned; NoOutput before the call
    \* further state of the agent and of the tools
    memory_blocks,      \* AgentState.memory_blocks: memory type -> block
    attempts,           \* the model streams started by the last thinker step
    \* the single-pass workflows
    sent,               \* chunks the running node has put on stream_queue
    refinement_count,   \* AgentState.refinement_count
    \* the tool registry of class ToolsManager
    registered_by_name,     \* ToolsManager.tools_by_name: the names it holds
    registered_by_category, \* ToolsManager.tools_by_category: category -> list
    registry_result,        \* what the last registry call returned or raised
    registry_ops            \* registry calls made

mem_vars == <<discipline, memory_entries, message_entities, archival_memory,
              next_id, clock, mem_result, mem_ops>>

wf_vars == <<scenario, pc, task, steps, epochs, retry, phase, thoughts, observations,
          last_tool_call, llm_response, prompt, stream_queue, session_messages,
          repository, collab, cpc, yielded, produced, responses, prompts,
          model_calls, persist_calls, dispatch>>

fn_vars == <<fn, fn_input, fn_output>>

agent_vars == <<memory_blocks>>
thinker_vars == <<attempts>>
simple_vars == <<sent, refinement_count>>
registry_vars == <<registered_by_name, registered_by_category, registry_result,
                   registry_ops>>

aux_vars == <<agent_vars, thinker_vars, simple_vars, registry_vars>>

vars == <<wf_vars, mem_vars, fn_vars, aux_vars>>

ToolCategories == {"CORE", "MEMORY", "MCP", "CODE"}

\* tools_by_name = {} and tools_by_category = defaultdict(list), as the
\* class body leaves them.
InitEmptyRegistry ==
    /\ registered_by_name = {}
    /\ registered_by_category = [c \in ToolCategories |-> << >>]
    /\ registry_result = [kind |-> "none"]
    /\ registry_ops = 0

InitNoSimple ==
    /\ sent = 0
    /\ refinement_count = 0

InitAux ==
    /\ memory_blocks = << >>
    /\ attempts = << >>
    /\ InitNoSimple
    /\ InitEmptyRegistry

NoOutput == [kind |-> "none"]

\* No function is studied in isolation while a turn or a store runs.
InitNoFunction ==
    /\ fn = "none"
    /\ fn_input = << >>
    /\ fn_output = NoOutput

NoResult == [kind |-> "none"]

\* No memory operation runs during a turn of the workflow.
InitNoMemory ==
    /\ discipline = "none"
    /\ memory_entries = << >>
    /\ message_entities = << >>
    /\ archival_memory = << >>
    /\ next_id = 1
    /\ clock = 0
    /\ mem_result = NoResult
    /\ mem_ops = 0

NoDispatch == [outcome |-> "none", action |-> NoAction, duplicate |-> FALSE]
NoToolCall == <<"", << >>>>
NoPrompt == [heartbeats_used |-> 0, current_user_query |-> << >>,
             CRITICAL |-> FALSE, conversation_history |-> << >>]

\* A turn that has not started: the state handed to a workflow and the
\* consumer of run() at its first get.
InitTurn ==
    /\ task = "running"
    /\ steps = 0
    /\ epochs = 0
    /\ retry = 0
    /\ phase = NEED_FINAL
    /\ thoughts = << >>
    /\ observations = << >>
    /\ last_tool_call = NoToolCall
    /\ llm_response = << >>
    /\ prompt = NoPrompt
    /\ stream_queue = << >>
    /\ session_messages = << >>
    /\ repository \in StoredHistories
    /\ collab = "ok"
    /\ cpc = "get"
    /\ yielded = << >>
    /\ produced = << >>
    /\ responses = << >>
    /\ prompts = << >>
    /\ model_calls = 0
    /\ persist_calls = 0
    /\ dispatch = NoDispatch

InitState ==
    /\ pc = "prompt_builder"
    /\ InitTurn

Init == scenario = "free" /\ InitState /\ InitNoMemory /\ InitNoFunction /\ InitAux
InitLoop == scenario = "loop" /\ InitState /\ InitNoMemory /\ InitNoFunction /\ InitAux

Menu == IF scenario = "free" THEN FreeMenu ELSE LoopMenu
CallCap == IF scenario = "free" THEN MaxIter ELSE RecursionLimit

\* ------------------------------------------------------------ stream queue
\* asyncio.Queue.put / put_nowait on the unbounded queue.
QueuePut(q, items) == q \o items

QueueGetNewest(q) == [item |-> q[Len(q)], rest |-> SubSeq(q, 1, Len(q) - 1)]

\* asyncio.Queue.get: the item handed out and the queue left behind.
QueueGet(q) == [item |-> Head(q), rest |-> Tail(q)]

\* -------------------------------------------------- conversation manager
\* get_messages: loads the repository page when the session list is empty.
get_messages(session, repo) == IF session = << >> THEN repo ELSE session

append_message_lost(session, message) == session

\* append_message
append_message(session, message) == Append(session, message)

\* ------------------------------------------------------------------ nodes
NodeGuard(node) == pc = node /\ task = "running" /\ steps < RecursionLimit

\* A node raised: astream propagates it to drive_workflow.
Raise ==
    /\ pc' = "finally"
    /\ task' = "exception"

prompt_builder ==
    /\ UNCHANGED <<mem_vars, fn_vars, aux_vars>>
    /\ NodeGuard("prompt_builder")
    /\ LET messages == get_messages(session_messages, repository)
           chunk == StreamChunk(<<"Thinking...">>, ANALYSIS)
       IN /\ session_messages' = messages
          /\ prompt' = [heartbeats_used |-> epochs,
                        current_user_query |-> user_message,
                        CRITICAL |-> epochs > HardCeiling,
                        conversation_history |-> messages]
          /\ stream_queue' = QueuePut(stream_queue, <<chunk>>)
          /\ produced' = produced \o <<chunk>>
    /\ pc' = "thinker"
    /\ steps' = steps + 1
    /\ UNCHANGED <<scenario, task, epochs, retry, phase, thoughts, observations,
                   last_tool_call, llm_response, repository, collab, cpc, yielded,
                   responses, prompts, model_calls, persist_calls, dispatch>>

\* One run of chatbot.stream_response: the text received, how the stream
\* ended, and the collaborators' behaviour that goes with a complete answer.
THROTTLING == "throttlingException"
STREAM_ERROR == "modelStreamErrorException"
Attempt(out, error, behaviour) == [out |-> out, error |-> error, collab |-> behaviour]
Completed(s) == Attempt(s.out, "none", s.collab)
Failed(out, error) == Attempt(out, error, "ok")

\* Text received before a stream broke: nothing, or the beginning of an
\* answer that holds no complete region yet.
PartialText == [tag |-> "none", text |-> <<"I should">>, valid |-> FALSE, action |-> NoAction]
Partials == { << >>, <<PartialText>> }

stream_attempts_retrying ==
    { <<Completed(s)>> : s \in Menu }
    \cup { <<Failed(<< >>, THROTTLING), Failed(<< >>, THROTTLING), Completed(s)>> : s \in Menu }

\* thinker, lines 104-114: the streams one step can start. A throttling
\* EventStreamError is answered by one more stream, outside any try; every
\* other error, and any error of the second stream, leaves the step.
stream_attempts ==
    { <<Completed(s)>> : s \in Menu }
    \cup { <<Failed(p, STREAM_ERROR)>> : p \in Partials }
    \cup { <<Failed(p, THROTTLING), Completed(s)>> : p \in Partials, s \in Menu }
    \cup { <<Failed(p, THROTTLING), Failed(<< >>, e)>> :
              p \in Partials, e \in {THROTTLING, STREAM_ERROR} }

\* plan_of_action += str(chunk), over every stream of the step
RECURSIVE plan_of_action(_)
plan_of_action(streams) ==
    IF streams = << >> THEN << >>
    ELSE Head(streams).out \o plan_of_action(Tail(streams))

thinker ==
    /\ UNCHANGED <<mem_vars, fn_vars, agent_vars, simple_vars, registry_vars>>
    /\ NodeGuard("thinker")
    /\ model_calls < CallCap
    /\ model_calls' = model_calls + 1
    /\ steps' = steps + 1
    /\ prompts' = Append(prompts, prompt)
    /\ \E streams \in stream_attempts :
         LET last == streams[Len(streams)]
         IN /\ attempts' = streams
            /\ IF last.error = "none"
               THEN /\ llm_response' = plan_of_action(streams)
                    /\ collab' = last.collab
                    /\ responses' = Append(responses, Step(last.out, last.collab))
                    /\ pc' = "parse_actions"
                    /\ task' = task
               ELSE \* the error leaves the node
                    /\ Raise
                    /\ UNCHANGED <<llm_response, collab, responses>>
    /\ UNCHANGED <<scenario, epochs, retry, phase, thoughts, observations,
                   last_tool_call, prompt, stream_queue, session_messages,
                   repository, cpc, yielded, produced, persist_calls, dispatch>>

\* ---------------------------------------------------------------- parsing
\* extract_tag_content: the bodies of the regions delimited by the tag.
extract_tag_content(text, tag) ==
    LET HasTag(b) == b.tag = tag IN SelectSeq(text, HasTag)

\* JsonToolsManager / YamlToolsManager.parse_tool_calls on one action block:
\* a block that does not deserialize into an Action is logged and skipped.
parse_tool_calls(block) == IF block.valid THEN <<block.action>> ELSE << >>

AgentThought(thought, action) == [thought |-> thought, action |-> action]

\* parse_actions, step 2: every action block, paired by index with the
\* monologue of the same index (or with "" when there is none).
RECURSIVE ParsedThoughts(_, _, _)
ParsedThoughts(action_blocks, monologues, idx) ==
    IF idx > Len(action_blocks) THEN << >>
    ELSE LET text == IF idx <= Len(monologues) THEN monologues[idx].text ELSE << >>
             parsed == parse_tool_calls(action_blocks[idx])
         IN [i \in 1..Len(parsed) |-> AgentThought(text, parsed[i])]
            \o ParsedThoughts(action_blocks, monologues, idx + 1)

parse_actions ==
    /\ UNCHANGED <<mem_vars, fn_vars, aux_vars>>
    /\ NodeGuard("parse_actions")
    /\ steps' = steps + 1
    /\ epochs' = epochs + 1
    /\ LET monologues == extract_tag_content(llm_response, "inner_monologue")
           action_blocks == extract_tag_content(llm_response, "action")
           chunks == [i \in 1..Len(monologues) |-> StreamChunk(monologues[i].text, PLANNING)]
       IN /\ stream_queue' = QueuePut(stream_queue, chunks)
          /\ produced' = produced \o chunks
          /\ IF collab = "parser_raise" /\ action_blocks # << >>
             THEN \* except Exception: count the retry, leave a system note, raise
                  /\ retry' = retry + 1
                  /\ session_messages' = append_message(session_messages,
                        SingleMessage(<<"Validation failed while parsing your response">>, "system"))
                  /\ Raise
                  /\ UNCHANGED thoughts
             ELSE /\ thoughts' = thoughts \o ParsedThoughts(action_blocks, monologues, 1)
                  /\ pc' = "execute_actions"
                  /\ UNCHANGED <<retry, session_messages, task>>
    /\ UNCHANGED <<scenario, phase, observations, last_tool_call, llm_response,
                   prompt, repository, collab, cpc, yielded, responses, prompts,
                   model_calls, persist_calls, dispatch>>

\* ---------------------------------------------------------------- dispatch
\* The tool handlers return a result and may put chunks on the stream queue,
\* or raise.
Returned(result, chunks) ==
    [raised |-> FALSE, error |-> << >>, result |-> result, chunks |-> chunks]
Raised(error) ==
    [raised |-> TRUE, error |-> error,
     result |-> ActionResult(<< >>, "", << >>), chunks |-> << >>]

send_message_twice(input) ==
    IF input.message # << >>
    THEN Returned(ActionResult(<<"Message sent successfully!">>, "send_message", input.message),
                  <<StreamChunk(input.message, FINAL_RESPONSE),
                    StreamChunk(input.message, FINAL_RESPONSE)>>)
    ELSE Returned(ActionResult(<<"Wrong input provided">>, "send_message", << >>), << >>)

\* tools/__init__.py send_message
send_message(input) ==
    IF input.message # << >>
    THEN Returned(ActionResult(<<"Message sent successfully!">>, "send_message", input.message),
                  <<StreamChunk(input.message, FINAL_RESPONSE)>>)
    ELSE IF input.filepath # ""
    THEN IF FileExists(input.filepath)
         THEN \* content += f.readline(); the chunk carries the next f.readline()
              Returned(ActionResult(<<"Message sent successfully!">>, "send_message",
                                    <<Files[input.filepath][1]>>),
                       <<StreamChunk(<<Files[input.filepath][2]>>, FINAL_RESPONSE)>>)
         ELSE Raised(<<"No such file or directory">>)
    ELSE Returned(ActionResult(<<"Wrong input provided">>, "send_message", << >>), << >>)

\* tools/__init__.py conversation_search: embeds the query and searches the
\* message repository (external I/O that may fail).
conversation_search(input, io) ==
    IF io = "handler_raise"
    THEN Raised(<<"search failed">>)
    ELSE Returned(ActionResult(<< >>, "conversation_search",
                               <<"Older conversation loaded into working context">>), << >>)

\* JsonToolsManager / YamlToolsManager.execute_tool: unknown names and schema
\* violations raise, and an exception of the handler is logged and re-raised.
execute_tool(thought, io) ==
    LET action == thought.action IN
    IF action.name \notin tools_by_name
    THEN Raised(<<"Unknown tool">>)
    ELSE IF action.name = "send_message"
    THEN send_message(action.params)
    ELSE IF action.params.query = ""
    THEN Raised(<<"query: Field required">>)
    ELSE conversation_search(action.params, io)

\* A parameter map is the sequence of its (key, value) items in insertion
\* order.  KeyRank is the order of the keys as strings.
KeyRank == [filepath |-> 1, message |-> 2, query |-> 3]

Items(params) ==
    <<<<"message", params.message>>, <<"filepath", params.filepath>>,
      <<"query", params.query>>>>

\* One item put at its place in a sequence of items sorted by key.
RECURSIVE InsertByKey(_, _)
InsertByKey(item, sorted) ==
    IF sorted = << >> THEN <<item>>
    ELSE IF KeyRank[item[1]] <= KeyRank[Head(sorted)[1]] THEN <<item>> \o sorted
    ELSE <<Head(sorted)>> \o InsertByKey(item, Tail(sorted))

RECURSIVE SortByKey(_)
SortByKey(items) ==
    IF items = << >> THEN << >>
    ELSE InsertByKey(Head(items), SortByKey(Tail(items)))

json_dumps_unsorted(items) == items

\* json.dumps(params, sort_keys=True): the items in the order of their keys.
json_dumps_sorted(items) == SortByKey(items)

\* hashlib.md5(...).hexdigest(): one digest per document (no two of the
\* documents considered collide).
md5(document) == <<"md5", document>>

\* execute_actions, line 189
params_hash(params) == md5(json_dumps_sorted(Items(params)))

ToolCallKey(action) == <<action.name, params_hash(action.params)>>

\* The key of line 190 for an action given by its name and its parameter map.
tool_call_key(name, items) == <<name, md5(json_dumps_sorted(items))>>

\* thought.action.model_dump_json()
model_dump_json(action) ==
    <<"name", action.name, "params">> \o params_hash(action.params)
    \o <<"request_heartbeat", IF action.request_heartbeat THEN "true" ELSE "false">>

PhaseAfterHeartbeatFirst(action) ==
    IF action.request_heartbeat THEN NEED_TOOL
    ELSE IF action.name = "send_message" THEN NEED_FINAL
    ELSE ERROR

\* execute_actions, lines 200-225: the phase chosen after a dispatch that returned.
PhaseAfter(action) ==
    IF action.name = "send_message" THEN NEED_FINAL
    ELSE IF action.request_heartbeat THEN NEED_TOOL
    ELSE ERROR

PhaseOnExceptionError == ERROR

\* execute_actions, line 230: the phase chosen when the dispatch raised.
PhaseOnException == NEED_TOOL

_router_error_loops(p) ==
    IF p = NEED_FINAL THEN "persist_message_exchange" ELSE "prompt_builder"

\* KrishnaAdvanceWorkflow._router
_router(p) ==
    IF p = NEED_TOOL THEN "prompt_builder"
    ELSE IF p = NEED_FINAL THEN "persist_message_exchange"
    ELSE "error_handler"

execute_actions ==
    /\ UNCHANGED <<mem_vars, fn_vars, aux_vars>>
    /\ NodeGuard("execute_actions")
    /\ steps' = steps + 1
    /\ IF thoughts = << >>
       THEN /\ pc' = _router(phase)
            /\ dispatch' = NoDispatch
            /\ UNCHANGED <<thoughts, last_tool_call, observations, phase, epochs,
                           session_messages, stream_queue, produced>>
       ELSE LET thought == Head(thoughts)
                action == thought.action
                response == execute_tool(thought, collab)
            IN /\ thoughts' = Tail(thoughts)
               /\ last_tool_call' = ToolCallKey(action)
               /\ dispatch' = [outcome |-> IF response.raised THEN "raised" ELSE "returned",
                               action |-> action,
                               duplicate |-> ToolCallKey(action) = last_tool_call]
               /\ stream_queue' = QueuePut(stream_queue, response.chunks)
               /\ produced' = produced \o response.chunks
               /\ IF response.raised
                  THEN \* except Exception: the error goes to the conversation
                       /\ phase' = PhaseOnException
                       /\ session_messages' = append_message(session_messages,
                             SingleMessage(<<"Error executing action: ">> \o response.error, "user"))
                       /\ UNCHANGED <<observations, epochs>>
                  ELSE /\ phase' = PhaseAfter(action)
                       /\ IF action.name = "send_message"
                          THEN /\ session_messages' = append_message(session_messages,
                                     SingleMessage(response.result.result, "assistant"))
                               /\ observations' = << >>
                               /\ epochs' = 0
                          ELSE IF action.request_heartbeat
                          THEN /\ session_messages' = append_message(
                                     append_message(session_messages,
                                         SingleMessage(model_dump_json(action), "assistant")),
                                     SingleMessage(response.result.result, "user"))
                               /\ observations' = Append(observations, response.result)
                               /\ UNCHANGED epochs
                          ELSE /\ observations' = Append(observations, response.result)
                               /\ UNCHANGED <<session_messages, epochs>>
               /\ pc' = _router(phase')
    /\ UNCHANGED <<scenario, task, retry, llm_response, prompt, repository, collab,
                   cpc, yielded, responses, prompts, model_calls, persist_calls>>

\* ------------------------------------------------------------ finalization
Last(s) == s[Len(s)]

\* SlidingWindowConversationManager.handle_final_response: stores the user
\* message and the last session message; session_messages[-1] raises
\* IndexError on an empty session.
handle_final_response(session, repo) ==
    repo \o <<SingleMessage(user_message, "user"),
              SingleMessage(Last(session).content, "assistant")>>

persist_message_exchange ==
    /\ UNCHANGED <<mem_vars, fn_vars, aux_vars>>
    /\ NodeGuard("persist_message_exchange")
    /\ steps' = steps + 1
    /\ persist_calls' = persist_calls + 1
    /\ IF session_messages = << >>
       THEN Raise /\ UNCHANGED repository
       ELSE /\ repository' = handle_final_response(session_messages, repository)
            /\ pc' = "finally"
            /\ task' = task
    /\ UNCHANGED <<scenario, epochs, retry, phase, thoughts, observations,
                   last_tool_call, llm_response, prompt, stream_queue,
                   session_messages, collab, cpc, yielded, produced, responses,
                   prompts, model_calls, dispatch>>

\* final_message += str(chunk) over the fragments of the stream
RECURSIVE Concat(_)
Concat(fragments) ==
    IF fragments = << >> THEN << >>
    ELSE <<Head(fragments)>> \o Concat(Tail(fragments))

error_handler ==
    /\ UNCHANGED <<mem_vars, fn_vars, aux_vars>>
    /\ NodeGuard("error_handler")
    /\ steps' = steps + 1
    /\ model_calls' = model_calls + 1
    /\ \/ \E reply \in ErrorReplies :
            LET messages == get_messages(session_messages, repository)
                chunks == [i \in 1..Len(reply) |-> StreamChunk(<<reply[i]>>, FINAL_RESPONSE)]
                final_message == Concat(reply)
                session == append_message(messages, SingleMessage(final_message, "assistant"))
            IN /\ stream_queue' = QueuePut(stream_queue, chunks)
               /\ produced' = produced \o chunks
               /\ session_messages' = session
               /\ persist_calls' = persist_calls + 1
               /\ IF session = << >>
                  THEN Raise /\ UNCHANGED repository
                  ELSE /\ repository' = handle_final_response(session, repository)
                       /\ pc' = "finally"
                       /\ task' = task
       \/ \* the model stream fails
          /\ Raise
          /\ session_messages' = get_messages(session_messages, repository)
          /\ UNCHANGED <<stream_queue, produced, repository, persist_calls>>
    /\ UNCHANGED <<scenario, epochs, retry, phase, thoughts, observations,
                   last_tool_call, llm_response, prompt, collab, cpc, yielded,
                   responses, prompts, dispatch>>

\* LangGraph stops a graph that has not finished within recursion_limit
\* super-steps with GraphRecursionError.
recursion_limit ==
    /\ UNCHANGED <<mem_vars, fn_vars, aux_vars>>
    /\ pc \in {"prompt_builder", "thinker", "parse_actions", "execute_actions",
               "persist_message_exchange", "error_handler"}
    /\ task = "running"
    /\ steps >= RecursionLimit
    /\ Raise
    /\ UNCHANGED <<scenario, steps, epochs, retry, phase, thoughts, observations,
                   last_tool_call, llm_response, prompt, stream_queue,
                   session_messages, repository, collab, cpc, yielded, produced,
                   responses, prompts, model_calls, persist_calls, dispatch>>

\* drive_workflow: "finally: await self.state.stream_queue.put(None)".
drive_workflow ==
    /\ UNCHANGED <<mem_vars, fn_vars, aux_vars>>
    /\ pc = "finally"
    /\ stream_queue' = QueuePut(stream_queue, <<None>>)
    /\ produced' = produced \o <<None>>
    /\ pc' = "done"
    /\ task' = IF task = "running" THEN "ok" ELSE task
    /\ UNCHANGED <<scenario, steps, epochs, retry, phase, thoughts, observations,
                   last_tool_call, llm_response, prompt, session_messages,
                   repository, collab, cpc, yielded, responses, prompts,
                   model_calls, persist_calls, dispatch>>

\* ---------------------------------------------------------------- consumer
\* run(), lines 88-92: get a chunk; None breaks the loop, anything else is
\* yielded.
run_get ==
    /\ UNCHANGED <<mem_vars, fn_vars, aux_vars>>
    /\ cpc = "get"
    /\ stream_queue # << >>
    /\ LET got == QueueGet(stream_queue)
       IN /\ stream_queue' = got.rest
          /\ IF got.item = None
             THEN cpc' = "await_task" /\ UNCHANGED yielded
             ELSE cpc' = "get" /\ yielded' = Append(yielded, got.item)
    /\ UNCHANGED <<scenario, pc, task, steps, epochs, retry, phase, thoughts,
                   observations, last_tool_call, llm_response, prompt,
                   session_messages, repository, collab, produced, responses,
                   prompts, model_calls, persist_calls, dispatch>>

\* run(), line 93: "await task" of a task that finished normally.
run_return ==
    /\ UNCHANGED <<mem_vars, fn_vars, aux_vars>>
    /\ cpc = "await_task"
    /\ pc = "done"
    /\ task = "ok"
    /\ cpc' = "returned"
    /\ UNCHANGED <<scenario, pc, task, steps, epochs, retry, phase, thoughts,
                   observations, last_tool_call, llm_response, prompt, stream_queue,
                   session_messages, repository, collab, yielded, produced,
                   responses, prompts, model_calls, persist_calls, dispatch>>

\* run(), lines 93-97: "await task" re-raises the task's exception; the
\* handler puts None on the queue and raises.
run_except ==
    /\ UNCHANGED <<mem_vars, fn_vars, aux_vars>>
    /\ cpc = "await_task"
    /\ pc = "done"
    /\ task = "exception"
    /\ stream_queue' = QueuePut(stream_queue, <<None>>)
    /\ produced' = produced \o <<None>>
    /\ cpc' = "raised"
    /\ UNCHANGED <<scenario, pc, task, steps, epochs, retry, phase, thoughts,
                   observations, last_tool_call, llm_response, prompt,
                   session_messages, repository, collab, yielded, responses,
                   prompts, model_calls, persist_calls, dispatch>>

\* The consumer stops iterating run(): the generator is closed at "yield
\* chunk" (GeneratorExit) or cancelled at "await ...get()" (CancelledError).
\* Neither is an Exception, so the handler of lines 94-97 does not run, and
\* nothing cancels the task created at line 87: only the consumer stops.
run_disconnect ==
    /\ UNCHANGED <<mem_vars, fn_vars, aux_vars>>
    /\ cpc = "get"
    /\ cpc' = "closed"
    /\ UNCHANGED <<scenario, pc, task, steps, epochs, retry, phase, thoughts,
                   observations, last_tool_call, llm_response, prompt, stream_queue,
                   session_messages, repository, collab, yielded, produced,
                   responses, prompts, model_calls, persist_calls, dispatch>>

\* ------------------------------------------------------------ specifications
Next ==
    \/ prompt_builder
    \/ thinker
    \/ parse_actions
    \/ execute_actions
    \/ persist_message_exchange
    \/ error_handler
    \/ drive_workflow
    \/ run_get
    \/ run_return
    \/ run_except
    \/ run_disconnect

Spec == Init /\ [][Next]_vars

\* The continuation scenario runs up to LangGraph's recursion limit.
NextLoop == Next \/ recursion_limit

SpecLoop == InitLoop /\ [][NextLoop]_vars

\* ------------------------------------------------- single-pass workflows
\* KrishnaMiniWorkflow runs _generate_response once; AgenticWorkflow runs the
\* graph of _build_graph. Every node puts a titled chunk on stream_queue and
\* then one chunk per piece of text it streams.
StepOf ==
    [query_analysis |-> ANALYSIS, approach_planning |-> "planning",
     deep_reasoning |-> "reasoning", insight_synthesis |-> "synthesis",
     response_drafting |-> "draft", quality_evaluation |-> "evaluation",
     response_refinement |-> "refinement", answer_finalization |-> FINAL_RESPONSE,
     _generate_response |-> FINAL_RESPONSE]

SimpleNodes == DOMAIN StepOf
\* The nodes that read chatbot.stream_response; answer_finalization streams
\* the lines of the draft it already holds.
StreamingNodes == SimpleNodes \ {"answer_finalization"}

max_refinements == 3

_should_continue_refinement(needs_refinement, count) ==
    needs_refinement /\ count < max_refinements

\* The edges of _build_graph; the node of KrishnaMiniWorkflow and
\* answer_finalization are followed by the end of drive_workflow's body.
Successor(node, needs_refinement, count) ==
    CASE node = "query_analysis" -> "approach_planning"
      [] node = "approach_planning" -> "deep_reasoning"
      [] node = "deep_reasoning" -> "insight_synthesis"
      [] node = "insight_synthesis" -> "response_drafting"
      [] node = "response_drafting" -> "quality_evaluation"
      [] node = "quality_evaluation" ->
            IF _should_continue_refinement(needs_refinement, count)
            THEN "response_refinement" ELSE "answer_finalization"
      [] node = "response_refinement" -> "quality_evaluation"
      [] OTHER -> "put_none"

simple_unchanged ==
    <<scenario, steps, epochs, retry, phase, thoughts, observations, last_tool_call,
      llm_response, prompt, session_messages, repository, collab, cpc, yielded,
      responses, prompts, model_calls, persist_calls, dispatch>>

\* A node starts: "await self.state.stream_queue.put(StreamChunk(..., step_title=...))"
node_title ==
    /\ pc \in SimpleNodes /\ task = "running"
    /\ sent = 0
    /\ LET chunk == StreamChunk(<<"title", pc>>, StepOf[pc])
       IN /\ stream_queue' = QueuePut(stream_queue, <<chunk>>)
          /\ produced' = produced \o <<chunk>>
    /\ sent' = 1
    /\ UNCHANGED <<pc, task, refinement_count, simple_unchanged>>
    /\ UNCHANGED <<mem_vars, fn_vars, agent_vars, thinker_vars, registry_vars>>

\* The chunks of model text put on the queue so far.
Streamed(chunks) ==
    LET FromModel(c) == c # None /\ c.content[1] = "chunk"
    IN Len(SelectSeq(chunks, FromModel))

\* The stream gives one more piece of text and the node puts it on the
\* queue; answer_finalization puts the draft, here of one line.
node_chunk ==
    /\ pc \in SimpleNodes /\ task = "running"
    /\ IF pc = "answer_finalization" THEN sent = 1
       ELSE sent >= 1 /\ Streamed(produced) < MaxChunks
    /\ LET chunk == StreamChunk(<<IF pc = "answer_finalization" THEN "line" ELSE "chunk",
                                    sent>>, StepOf[pc])
       IN /\ stream_queue' = QueuePut(stream_queue, <<chunk>>)
          /\ produced' = produced \o <<chunk>>
    /\ sent' = sent + 1
    /\ UNCHANGED <<pc, task, refinement_count, simple_unchanged>>
    /\ UNCHANGED <<mem_vars, fn_vars, agent_vars, thinker_vars, registry_vars>>

\* The stream is exhausted: the node stores its text and the graph moves on.
\* _evaluate_quality reads the decision from the text it received.
node_end ==
    /\ pc \in SimpleNodes /\ task = "running"
    /\ sent >= (IF pc = "answer_finalization" THEN 2 ELSE 1)
    /\ \E needs_refinement \in (IF pc = "quality_evaluation" THEN BOOLEAN ELSE {FALSE}) :
         LET count == IF needs_refinement THEN refinement_count + 1
                      ELSE refinement_count
         IN /\ refinement_count' = count
            /\ pc' = Successor(pc, needs_refinement, count)
    /\ sent' = 0
    /\ UNCHANGED <<task, stream_queue, produced, simple_unchanged>>
    /\ UNCHANGED <<mem_vars, fn_vars, agent_vars, thinker_vars, registry_vars>>

\* chatbot.stream_response raises inside a node: nothing in the node, in
\* astream or in drive_workflow catches it, so the task ends with the
\* exception and the statements after the node do not run.
node_raises ==
    /\ pc \in StreamingNodes /\ task = "running"
    /\ sent >= 1
    /\ task' = "exception"
    /\ pc' = "done"
    /\ UNCHANGED <<sent, refinement_count, stream_queue, produced, simple_unchanged>>
    /\ UNCHANGED <<mem_vars, fn_vars, agent_vars, thinker_vars, registry_vars>>

\* drive_workflow, last statement: "await self.state.stream_queue.put(None)"
put_none ==
    /\ pc = "put_none" /\ task = "running"
    /\ stream_queue' = QueuePut(stream_queue, <<None>>)
    /\ produced' = produced \o <<None>>
    /\ pc' = "done"
    /\ task' = "ok"
    /\ UNCHANGED <<sent, refinement_count, simple_unchanged>>
    /\ UNCHANGED <<mem_vars, fn_vars, agent_vars, thinker_vars, registry_vars>>

InitSimple ==
    /\ scenario \in {"mini", "agentic"}
    /\ pc = (IF scenario = "mini" THEN "_generate_response" ELSE "query_analysis")
    /\ InitTurn
    /\ repository = << >>
    /\ InitNoMemory /\ InitNoFunction /\ InitAux

\* The task created by run(): the nodes and the end marker.
ProducerNext ==
    \/ node_title
    \/ node_chunk
    \/ node_end
    \/ node_raises
    \/ put_none

\* run(): "while True: chunk = await queue.get() ...", then "await task".
ConsumerNext ==
    \/ run_get
    \/ run_return

NextSimple ==
    \/ ProducerNext
    \/ ConsumerNext

\* The event loop runs every coroutine that is ready, and a model stream ends
\* or fails after finitely many chunks.
SpecSimple ==
    InitSimple /\ [][NextSimple]_vars /\ WF_vars(ProducerNext) /\ WF_vars(ConsumerNext)
\* ------------------------------------------------------------ tool registry
\* tools_by_name and tools_by_category are attributes of class ToolsManager:
\* every instance (JsonToolsManager, YamlToolsManager) reads and writes the
\* same two objects. A tool is identified by its name.
Registry(by_name, by_category) == [by_name |-> by_name, by_category |-> by_category]

\* ToolsManager.register_tool
register(registry, tool_category, tool) ==
    Registry(registry.by_name \cup {tool},
             [registry.by_category EXCEPT ![tool_category] = Append(@, tool)])

\* del given_category[idx]
DeleteAt(list, idx) == SubSeq(list, 1, idx - 1) \o SubSeq(list, idx + 1, Len(list))

\* enumerate(given_category): the first index that holds the tool's name, 0
\* when there is none.
FirstIndex(list, tool) ==
    IF \E i \in DOMAIN list : list[i] = tool
    THEN CHOOSE i \in DOMAIN list :
            list[i] = tool /\ \A j \in 1..(i - 1) : list[j] # tool
    ELSE 0

\* The tools KrishnaAdvanceWorkflowHelper.__init__ registers, in its order;
\* the MCP server tools are configuration and stand as one tool.
HelperTools ==
    << <<"MEMORY", "memory_append">>, <<"MEMORY", "memory_replace">>,
       <<"MEMORY", "memory_evict">>, <<"MEMORY", "memory_read">>,
       <<"MCP", "mcp_list_tools">>,
       <<"CORE", "conversation_search">>, <<"CORE", "send_message">>,
       <<"CODE", "python_code_runner">> >>

RECURSIVE register_all(_, _)
register_all(registry, tools) ==
    IF tools = << >> THEN registry
    ELSE register_all(register(registry, Head(tools)[1], Head(tools)[2]), Tail(tools))

\* Tools and categories of the direct calls.
CalledTools == {"send_message", "conversation_search"}
CalledCategories == {"CORE", "MEMORY"}

registry_unchanged == <<wf_vars, mem_vars, fn_vars, agent_vars, thinker_vars, simple_vars>>

register_tool ==
    /\ registry_ops < MaxRegistryOps
    /\ registry_ops' = registry_ops + 1
    /\ \E tool_category \in CalledCategories, tool \in CalledTools :
         LET after == register(Registry(registered_by_name, registered_by_category),
                               tool_category, tool)
         IN /\ registered_by_name' = after.by_name
            /\ registered_by_category' = after.by_category
            /\ registry_result' = [kind |-> "returned", op |-> "register_tool"]
    /\ UNCHANGED registry_unchanged

\* ToolsManager.remove_tool: the first entry of the category's list with the
\* tool's name is deleted, then the name's key; a name that is in the list
\* and not in tools_by_name ends the call with KeyError, the entry gone.
remove_tool ==
    /\ registry_ops < MaxRegistryOps
    /\ registry_ops' = registry_ops + 1
    /\ \E tool_category \in CalledCategories, tool \in CalledTools :
         LET given_category == registered_by_category[tool_category]
             idx == FirstIndex(given_category, tool)
         IN IF idx = 0
            THEN /\ UNCHANGED <<registered_by_name, registered_by_category>>
                 /\ registry_result' = [kind |-> "returned", op |-> "remove_tool"]
            ELSE /\ registered_by_category' =
                       [registered_by_category EXCEPT
                           ![tool_category] = DeleteAt(given_category, idx)]
                 /\ registered_by_name' = registered_by_name \ {tool}
                 /\ registry_result' =
                       IF tool \in registered_by_name
                       THEN [kind |-> "returned", op |-> "remove_tool"]
                       ELSE [kind |-> "KeyError", op |-> "remove_tool"]
    /\ UNCHANGED registry_unchanged

\* KrishnaAdvanceWorkflowHelper.__init__: a helper is built for a request
\* and registers its tools with the manager it is given.
__init__ ==
    /\ registry_ops < MaxRegistryOps
    /\ registry_ops' = registry_ops + 1
    /\ LET after == register_all(Registry(registered_by_name, registered_by_category),
                                 HelperTools)
       IN /\ registered_by_name' = after.by_name
          /\ registered_by_category' = after.by_category
    /\ registry_result' = [kind |-> "returned", op |-> "__init__"]
    /\ UNCHANGED registry_unchanged

InitRegistry ==
    /\ scenario = "free" /\ InitState /\ repository = << >>
    /\ InitNoMemory /\ InitNoFunction /\ InitAux

NextRegistry ==
    \/ register_tool
    \/ remove_tool
    \/ __init__

SpecRegistry == InitRegistry /\ [][NextRegistry]_vars

\* ------------------------------------------------------------ memory stores
\* Pieces of text the memory tools are given, with their len().
FragmentLen == [note |-> 7, para |-> 160, page |-> 399, essay |-> 404, nl |-> 1]
Fragments == {"note", "para", "page", "essay"}

\* len(content) of a text made of fragments
RECURSIVE StrLen(_)
StrLen(content) ==
    IF content = << >> THEN 0
    ELSE FragmentLen[Head(content)] + StrLen(Tail(content))

\* MemoryManagementConfig.MEMORY_SEARCH_PAGE_SIZE
MEMORY_SEARCH_PAGE_SIZE == 10
\* MemoryManagementConfig.AVERAGE_TOKEN_SIZE
AVERAGE_TOKEN_SIZE == 4
\* MemoryManagerV3.page_size, in tokens
page_size == 100

\* BaseVectorEmbedder.embed_single_text: the vector of a text, taken to tell
\* different texts apart.
embed_single_text(text) == <<"embedding", text>>
\* embedding = None, or the default [] of MemoryEntry.embedding
NoEmbedding == << >>

MemoryEntry(id, user_id, memory_type, content, embedding, created_at) ==
    [id |-> id, user_id |-> user_id, memory_type |-> memory_type,
     content |-> content, embedding |-> embedding, created_at |-> created_at]

PaginatedResult(op, results, page, total_pages, total_count, size) ==
    [kind |-> "result", op |-> op, results |-> results, page |-> page,
     total_pages |-> total_pages, total_count |-> total_count, page_size |-> size]

ValueError(op, page) == [kind |-> "raised", op |-> op, page |-> page]

\* .where(user_id == ..., memory_type == ...)
RowsOf(rows, user_id, memory_type) ==
    LET Match(r) == r.user_id = user_id /\ r.memory_type = memory_type
    IN SelectSeq(rows, Match)

\* The rows a statement changed, the others kept in place.
UpdateRow(rows, row) ==
    [i \in DOMAIN rows |-> IF rows[i].id = row.id THEN row ELSE rows[i]]

\* .offset(offset).limit(limit) on an ordered result
OffsetLimit(rows, offset, limit) ==
    IF offset >= Len(rows) THEN << >>
    ELSE SubSeq(rows, offset + 1,
                IF offset + limit < Len(rows) THEN offset + limit ELSE Len(rows))

StoredRows(n, memory_type) ==
    [i \in 1..n |-> MemoryEntry(i, "u1", memory_type, <<"note">>,
                            embed_single_text(<<"note">>), 0)]

\* The paginated searches run against a store that already holds the
\* user's entries and messages.
InitSearch ==
    /\ discipline = "v1"
    /\ \E n \in 0..MaxStored : memory_entries = StoredRows(n, "archival")
    /\ \E n \in 0..MaxStored : message_entities = StoredRows(n, "recall")
    /\ archival_memory = << >>
    /\ next_id = MaxStored + 1
    /\ clock = 0
    /\ mem_result = NoResult
    /\ mem_ops = 0

\* The stores that are written start empty.
InitWritten ==
    /\ discipline \in {"overflow", "v2", "v3"}
    /\ memory_entries = << >>
    /\ message_entities = << >>
    /\ archival_memory = << >>
    /\ next_id = 1
    /\ clock = 0
    /\ mem_result = NoResult
    /\ mem_ops = 0

\* The workflow is not running while the memory stores are exercised.
InitIdle ==
    /\ scenario = "free"
    /\ InitState
    /\ repository = << >>

\* MemoryManager.search_paginated: the active entries of the user, ranked by
\* distance to the query (the ranking is kept as the table order), one page
\* of MEMORY_SEARCH_PAGE_SIZE entries.
search_paginated_result(rows, page) ==
    LET offset == (page - 1) * MEMORY_SEARCH_PAGE_SIZE
        total_count == Len(rows)
        total_pages == (total_count + MEMORY_SEARCH_PAGE_SIZE - 1) \div MEMORY_SEARCH_PAGE_SIZE
    IN PaginatedResult("search_paginated",
                       OffsetLimit(rows, offset, MEMORY_SEARCH_PAGE_SIZE),
                       page, total_pages, total_count, MEMORY_SEARCH_PAGE_SIZE)

search_paginated ==
    /\ discipline = "v1"
    /\ \E page \in 1..MaxPage :
          mem_result' = search_paginated_result(memory_entries, page)
    /\ UNCHANGED <<wf_vars, fn_vars, aux_vars, discipline, memory_entries, message_entities,
                   archival_memory, next_id, clock, mem_ops>>

\* MemoryManager.search_conversation_paginated_by_user_id_and_embeddings
search_conversation_paginated ==
    /\ discipline = "v1"
    /\ \E page \in 1..MaxPage :
          mem_result' = [search_paginated_result(message_entities, page)
                            EXCEPT !.op = "search_conversation_paginated"]
    /\ UNCHANGED <<wf_vars, fn_vars, aux_vars, discipline, memory_entries, message_entities,
                   archival_memory, next_id, clock, mem_ops>>

\* ------------------------------------------------------- overflow handling
\* MemoryType.token_limit: int(CONTEXT_LENGTH * 0.01) and int(CONTEXT_LENGTH * 0.05)
CONTEXT_LENGTH == 8000
token_limit == [archival |-> CONTEXT_LENGTH \div 100, persona |-> (CONTEXT_LENGTH * 5) \div 100]

\* sum(len(entry.content) for entry in memory_deque)
RECURSIVE Chars(_)
Chars(memory_deque) ==
    IF memory_deque = << >> THEN 0
    ELSE StrLen(Head(memory_deque).content) + Chars(Tail(memory_deque))

\* "while memory_deque and current_chars > target_chars: popleft()"
RECURSIVE EvictFifo(_, _)
EvictFifo(memory_deque, target_chars) ==
    IF memory_deque # << >> /\ Chars(memory_deque) > target_chars
    THEN EvictFifo(Tail(memory_deque), target_chars)
    ELSE memory_deque

\* The comparison of line 78 is made on chars / AVERAGE_TOKEN_SIZE; both
\* sides are multiplied by AVERAGE_TOKEN_SIZE here.
WouldOverflow(memory_deque, memory_type, new_entry_size) ==
    Chars(memory_deque) + new_entry_size > token_limit[memory_type] * AVERAGE_TOKEN_SIZE

\* _manage_memory_overflow, for the types kept in state.archival_memory:
\* the deque after the eviction down to 50% of the type's token limit.
_manage_memory_overflow(memory_deque, memory_type, new_entry_size) ==
    IF WouldOverflow(memory_deque, memory_type, new_entry_size)
    THEN EvictFifo(memory_deque, (token_limit[memory_type] * AVERAGE_TOKEN_SIZE) \div 2)
    ELSE memory_deque

\* MemoryManager.evict_memory_batch
evict_memory_batch(rows, ids) ==
    LET Kept(r) == r.id \notin ids IN SelectSeq(rows, Kept)

\* archival_memory_insert
archival_memory_insert ==
    /\ discipline = "overflow"
    /\ mem_ops < MaxMemOps
    /\ mem_ops' = mem_ops + 1
    /\ next_id' = next_id + 1
    /\ \E label \in DOMAIN token_limit, data \in Fragments :
         LET kept == _manage_memory_overflow(archival_memory, label, StrLen(<<data>>))
             evicted_ids == {archival_memory[i].id :
                               i \in 1..(Len(archival_memory) - Len(kept))}
             entry == MemoryEntry(next_id, "u1", label, <<data>>,
                                  embed_single_text(<<data>>), clock)
         IN /\ memory_entries' =
                  Append(evict_memory_batch(memory_entries, evicted_ids), entry)
            /\ archival_memory' = Append(kept, entry)
            /\ mem_result' = [kind |-> "result", op |-> "archival_memory_insert",
                              memory_type |-> label,
                              overflow |-> WouldOverflow(archival_memory, label,
                                                         StrLen(<<data>>)),
                              before |-> archival_memory]
    /\ UNCHANGED <<wf_vars, fn_vars, aux_vars, discipline, message_entities, clock>>

\* -------------------------------------------------- unique-block discipline
Users == {"u1", "u2"}
BlockTypes == {"persona", "archival"}
BlockTexts == {"note", "para"}

\* session.scalar(select(...).where(user_id, memory_type)): the first
\* matching row, or none.
Existing(rows, user_id, memory_type) == RowsOf(rows, user_id, memory_type)

upsert_always_creates(rows, id, user_id, memory_type, content, embedding, created_at) ==
    Append(rows, MemoryEntry(id, user_id, memory_type, content, embedding, created_at))

\* MemoryManagerV2.upsert_memory_block
upsert_memory_block(rows, id, user_id, memory_type, content, embedding, created_at) ==
    LET existing == Existing(rows, user_id, memory_type)
    IN IF existing # << >>
       THEN UpdateRow(rows, [existing[1] EXCEPT
                                !.content = content,
                                !.embedding = IF embedding # NoEmbedding
                                              THEN embedding ELSE @])
       ELSE Append(rows, MemoryEntry(id, user_id, memory_type, content, embedding,
                                     created_at))

\* str.replace on a text made of fragments
RECURSIVE Replace(_, _, _)
Replace(content, old_text, new_text) ==
    IF content = << >> THEN << >>
    ELSE (IF Head(content) = old_text THEN new_text ELSE <<Head(content)>>)
         \o Replace(Tail(content), old_text, new_text)

replace_or_create(rows, id, user_id, memory_type, old_text, new_text, created_at) ==
    upsert_memory_block(rows, id, user_id, memory_type, new_text, NoEmbedding, created_at)

\* MemoryManagerV2.replace_in_memory_block: the rows after the call; nothing
\* changes when there is no block.
replace_in_rows(rows, id, user_id, memory_type, old_text, new_text, created_at) ==
    LET entity == Existing(rows, user_id, memory_type)
    IN IF entity = << >> THEN rows
       ELSE UpdateRow(rows, [entity[1] EXCEPT !.content = Replace(@, old_text, new_text)])

\* MemoryManagerV2.delete_memory_block: the rows after the call
delete_rows(rows, user_id, memory_type) ==
    LET Kept(r) == ~(r.user_id = user_id /\ r.memory_type = memory_type)
    IN SelectSeq(rows, Kept)

\* MemoryManagerV2.get_all_memory_blocks: one block per memory type of the
\* user, a later row replacing an earlier one of the same type.
get_all_memory_blocks(rows, user_id) ==
    LET mine == SelectSeq(rows, LAMBDA r : r.user_id = user_id)
        last == {i \in DOMAIN mine :
                    \A j \in DOMAIN mine : j > i => mine[j].memory_type # mine[i].memory_type}
        Pick(r) == \E i \in last : mine[i] = r
    IN SelectSeq(mine, Pick)

V2Result(op, existed) == [kind |-> "result", op |-> op, existed |-> existed]

upsert ==
    /\ discipline = "v2"
    /\ mem_ops < MaxMemOps
    /\ mem_ops' = mem_ops + 1
    /\ next_id' = next_id + 1
    /\ \E user_id \in Users, memory_type \in BlockTypes, text \in BlockTexts :
          /\ memory_entries' = upsert_memory_block(memory_entries, next_id, user_id,
                                                   memory_type, <<text>>,
                                                   embed_single_text(<<text>>), clock)
          /\ mem_result' = V2Result("upsert_memory_block",
                                    Existing(memory_entries, user_id, memory_type) # << >>)
    /\ UNCHANGED <<wf_vars, fn_vars, aux_vars, discipline, message_entities, archival_memory, clock>>

\* MemoryManagerV2.append_to_memory_block
append_to_memory_block ==
    /\ discipline = "v2"
    /\ mem_ops < MaxMemOps
    /\ mem_ops' = mem_ops + 1
    /\ next_id' = next_id + 1
    /\ \E user_id \in Users, memory_type \in BlockTypes, text \in BlockTexts :
         LET existing_block == Existing(memory_entries, user_id, memory_type)
             new_content ==
                 IF existing_block # << >> /\ existing_block[1].content # << >>
                 THEN existing_block[1].content \o <<"nl", text>>
                 ELSE <<text>>
         IN /\ memory_entries' = upsert_memory_block(memory_entries, next_id, user_id,
                                                     memory_type, new_content,
                                                     NoEmbedding, clock)
            /\ mem_result' = V2Result("append_to_memory_block", existing_block # << >>)
    /\ UNCHANGED <<wf_vars, fn_vars, aux_vars, discipline, message_entities, archival_memory, clock>>

\* MemoryManagerV2.replace_in_memory_block
replace_in_memory_block ==
    /\ discipline = "v2"
    /\ mem_ops < MaxMemOps
    /\ mem_ops' = mem_ops + 1
    /\ \E user_id \in Users, memory_type \in BlockTypes,
          new_text \in {<< >>, <<"para">>} :
         LET entity == Existing(memory_entries, user_id, memory_type)
         IN /\ memory_entries' = replace_in_rows(memory_entries, next_id, user_id,
                                                 memory_type, "note", new_text, clock)
            /\ mem_result' = V2Result("replace_in_memory_block", entity # << >>)
    /\ UNCHANGED <<wf_vars, fn_vars, aux_vars, discipline, message_entities, archival_memory, next_id, clock>>

\* MemoryManagerV2.delete_memory_block
delete_memory_block ==
    /\ discipline = "v2"
    /\ mem_ops < MaxMemOps
    /\ mem_ops' = mem_ops + 1
    /\ \E user_id \in Users, memory_type \in BlockTypes :
            /\ memory_entries' = delete_rows(memory_entries, user_id, memory_type)
            /\ mem_result' = V2Result("delete_memory_block",
                                      Existing(memory_entries, user_id, memory_type) # << >>)
    /\ UNCHANGED <<wf_vars, fn_vars, aux_vars, discipline, message_entities, archival_memory, next_id, clock>>

\* ------------------------------------------------------ unique-block tools
\* The tools act for state.user and refresh state.memory_blocks from the
\* store after a change.
ToolResult(op, memory_type, thought) ==
    [kind |-> "action_result", op |-> op, memory_type |-> memory_type,
     thought |-> thought]

memory_block_upsert ==
    /\ discipline = "v2"
    /\ mem_ops < MaxMemOps
    /\ mem_ops' = mem_ops + 1
    /\ next_id' = next_id + 1
    /\ \E memory_type \in BlockTypes, text \in BlockTexts :
         LET rows == upsert_memory_block(memory_entries, next_id, "u1", memory_type,
                                         <<text>>, embed_single_text(<<text>>), clock)
         IN /\ memory_entries' = rows
            /\ memory_blocks' = get_all_memory_blocks(rows, "u1")
            /\ mem_result' = ToolResult("memory_block_upsert", memory_type,
                                        "Upserted memory block")
    /\ UNCHANGED <<wf_vars, fn_vars, thinker_vars, simple_vars, registry_vars, discipline, message_entities, archival_memory, clock>>

memory_block_replace ==
    /\ discipline = "v2"
    /\ mem_ops < MaxMemOps
    /\ mem_ops' = mem_ops + 1
    /\ next_id' = next_id + 1
    /\ \E memory_type \in BlockTypes, new_text \in {<< >>, <<"para">>} :
         LET rows == replace_in_rows(memory_entries, next_id, "u1", memory_type,
                                     "note", new_text, clock)
             updated_entry == Existing(rows, "u1", memory_type)
         IN /\ memory_entries' = rows
            /\ IF updated_entry = << >>
               THEN /\ mem_result' = ToolResult("memory_block_replace", memory_type,
                                                "Memory block not found")
                    /\ UNCHANGED memory_blocks
               ELSE /\ mem_result' = ToolResult("memory_block_replace", memory_type,
                                                "Replaced text in memory block")
                    /\ memory_blocks' = get_all_memory_blocks(rows, "u1")
    /\ UNCHANGED <<wf_vars, fn_vars, thinker_vars, simple_vars, registry_vars, discipline, message_entities, archival_memory, clock>>

memory_block_read ==
    /\ discipline = "v2"
    /\ \E memory_type \in BlockTypes :
         LET memory_entry == Existing(memory_entries, "u1", memory_type)
         IN mem_result' = ToolResult("memory_block_read", memory_type,
                             IF memory_entry = << >> THEN "Memory block not found"
                             ELSE "Retrieved memory block")
    /\ UNCHANGED <<wf_vars, fn_vars, aux_vars, discipline, memory_entries,
                   message_entities, archival_memory, next_id, clock, mem_ops>>

memory_block_delete ==
    /\ discipline = "v2"
    /\ mem_ops < MaxMemOps
    /\ mem_ops' = mem_ops + 1
    /\ \E memory_type \in BlockTypes :
         LET rows == delete_rows(memory_entries, "u1", memory_type)
             deleted == rows # memory_entries
         IN /\ memory_entries' = rows
            /\ IF ~deleted
               THEN /\ mem_result' = ToolResult("memory_block_delete", memory_type,
                                                "Memory block not found")
                    /\ UNCHANGED memory_blocks
               ELSE /\ mem_result' = ToolResult("memory_block_delete", memory_type,
                                                "Deleted memory block")
                    /\ memory_blocks' = get_all_memory_blocks(rows, "u1")
    /\ UNCHANGED <<wf_vars, fn_vars, thinker_vars, simple_vars, registry_vars, discipline, message_entities, archival_memory,
                   next_id, clock>>

\* ---------------------------------------------------- paginated discipline
\* MemoryManagerV3._convert_to_token_count
_convert_to_token_count(text) == StrLen(text) \div 4

\* order_by(created_at.desc()).limit(1): a row with the largest created_at;
\* rows that share it are returned in no particular order.
Latest(rows) ==
    {r \in {rows[i] : i \in DOMAIN rows} :
        \A j \in DOMAIN rows : rows[j].created_at <= r.created_at}

\* The models are imported again (a new process): the default of
\* MemoryEntry.created_at, datetime.now() evaluated at import, moves on.
restart ==
    /\ discipline = "v3"
    /\ clock < MaxRestarts
    /\ clock' = clock + 1
    /\ UNCHANGED <<wf_vars, fn_vars, aux_vars, discipline, memory_entries, message_entities,
                   archival_memory, next_id, mem_result, mem_ops>>

\* MemoryManagerV3.append
append ==
    /\ discipline = "v3"
    /\ mem_ops < MaxMemOps
    /\ mem_ops' = mem_ops + 1
    /\ next_id' = next_id + 1
    /\ \E f \in Fragments :
         LET memory_entry == MemoryEntry(next_id, "u1", "persona", <<f>>,
                                        embed_single_text(<<f>>), clock)
             rows == RowsOf(memory_entries, "u1", "persona")
             total_pages == Len(rows)
             new_content_tokens == _convert_to_token_count(memory_entry.content)
         IN IF rows = << >>
            THEN \* memory block is empty, create a new page
                 /\ memory_entries' = Append(memory_entries, memory_entry)
                 /\ mem_result' = PaginatedResult("append", <<memory_entry>>, 1, 1,
                                                  new_content_tokens, page_size)
            ELSE \E entity \in Latest(rows) :
                 LET existing_page_tokens == _convert_to_token_count(entity.content)
                 IN IF existing_page_tokens + new_content_tokens > page_size
                    THEN \* create new page
                         /\ memory_entries' = Append(memory_entries, memory_entry)
                         /\ mem_result' = PaginatedResult("append", <<memory_entry>>,
                                              total_pages + 1, total_pages + 1,
                                              new_content_tokens, page_size)
                    ELSE LET content == entity.content \o memory_entry.content
                             grown == [entity EXCEPT !.content = content,
                                                     !.embedding = embed_single_text(content)]
                         IN /\ memory_entries' = UpdateRow(memory_entries, grown)
                            /\ mem_result' = PaginatedResult("append", <<grown>>,
                                                 total_pages, total_pages,
                                                 _convert_to_token_count(grown.content),
                                                 page_size)
    /\ UNCHANGED <<wf_vars, fn_vars, aux_vars, discipline, message_entities, archival_memory, clock>>

\* order_by(key).offset(page - 1).limit(1): the rows that can stand at
\* position page of the ordered result; rows with equal keys come in no
\* particular order.
\* keys[i] is the value rows[i] is ordered by.
AtRank(rows, keys, page) ==
    {rows[k] : k \in {i \in DOMAIN rows :
        /\ Cardinality({j \in DOMAIN rows : keys[j] < keys[i]}) < page
        /\ page <= Cardinality({j \in DOMAIN rows : keys[j] <= keys[i]})}}

\* embedding.cosine_distance(embeddings): nothing for the embedding of the
\* same text, something for any other.
cosine_distance(embedding, embeddings) == IF embedding = embeddings THEN 0 ELSE 1

\* MemoryManagerV3.read: the page-th row in order of distance to the query,
\* or ValueError when there is none.
read ==
    /\ discipline = "v3"
    /\ \E page \in 1..MaxPage, query \in Fragments :
         LET rows == RowsOf(memory_entries, "u1", "persona")
             total_pages == Len(rows)
             embeddings == embed_single_text(<<query>>)
             distance == [i \in DOMAIN rows |->
                             cosine_distance(rows[i].embedding, embeddings)]
         IN IF total_pages = 0
            THEN mem_result' = PaginatedResult("read", << >>, page, 0, 0, page_size)
            ELSE IF AtRank(rows, distance, page) = {}
            THEN mem_result' = ValueError("read", page)
            ELSE \E entity \in AtRank(rows, distance, page) :
                    mem_result' = PaginatedResult("read", <<entity>>, page, total_pages,
                                     _convert_to_token_count(entity.content), page_size)
    /\ UNCHANGED <<wf_vars, fn_vars, aux_vars, discipline, memory_entries, message_entities,
                   archival_memory, next_id, clock, mem_ops>>

\* MemoryManagerV3.replace: the rows and the result of replacing old_txt by
\* new_txt in the page-th row in order of creation.
replace_page(op, page, old_txt, new_txt) ==
    LET rows == RowsOf(memory_entries, "u1", "persona")
        total_pages == Len(rows)
        created_at == [i \in DOMAIN rows |-> rows[i].created_at]
    IN IF AtRank(rows, created_at, page) = {}
       THEN /\ mem_result' = ValueError(op, page)
            /\ UNCHANGED memory_entries
       ELSE \E entity \in AtRank(rows, created_at, page) :
               LET content == Replace(entity.content, old_txt, new_txt)
                   replaced == [entity EXCEPT !.content = content,
                                              !.embedding = embed_single_text(content)]
               IN /\ memory_entries' = UpdateRow(memory_entries, replaced)
                  /\ mem_result' = PaginatedResult(op, <<replaced>>, page, total_pages,
                                       _convert_to_token_count(content), page_size)

replace ==
    /\ discipline = "v3"
    /\ mem_ops < MaxMemOps
    /\ mem_ops' = mem_ops + 1
    /\ \E page \in 1..MaxPage : replace_page("replace", page, "note", <<"para">>)
    /\ UNCHANGED <<wf_vars, fn_vars, aux_vars, discipline, message_entities,
                   archival_memory, next_id, clock>>

\* MemoryManagerV3.evict
evict ==
    /\ discipline = "v3"
    /\ mem_ops < MaxMemOps
    /\ mem_ops' = mem_ops + 1
    /\ \E page \in 1..MaxPage : replace_page("evict", page, "note", << >>)
    /\ UNCHANGED <<wf_vars, fn_vars, aux_vars, discipline, message_entities,
                   archival_memory, next_id, clock>>

InitMemory == InitIdle /\ (InitSearch \/ InitWritten) /\ InitNoFunction /\ InitAux

NextMemory ==
    \/ memory_block_upsert
    \/ memory_block_replace
    \/ memory_block_read
    \/ memory_block_delete
    \/ upsert
    \/ append_to_memory_block
    \/ replace_in_memory_block
    \/ delete_memory_block
    \/ archival_memory_insert
    \/ search_paginated
    \/ search_conversation_paginated
    \/ restart
    \/ append
    \/ read
    \/ replace
    \/ evict

SpecMemory == InitMemory /\ [][NextMemory]_vars

\* ------------------------------------------------- serialized tool calls
\* A raw model response is a sequence of pieces: the delimiters, the
\* punctuation of the structured format, and the pieces of the texts.
OpenTag(tag) == <<"<", tag, ">">>
CloseTag(tag) == <<"<", "/", tag, ">">>

TextPieces == {"hi", "<action>", "</action>"}
Texts == UNION {[1..k -> TextPieces] : k \in 0..MaxText}

\* The characters of a piece of text as they stand in a document: neither
\* json.dumps nor yaml.safe_dump escapes "<", "/" or ">".
Chars1(piece) ==
    IF piece = "<action>" THEN OpenTag("action")
    ELSE IF piece = "</action>" THEN CloseTag("action")
    ELSE <<piece>>

RECURSIVE Written(_)
Written(text) ==
    IF text = << >> THEN << >> ELSE Chars1(Head(text)) \o Written(Tail(text))

\* The text a quoted string stands for: the inverse of Written.
RECURSIVE ReadText(_)
ReadText(chars) ==
    IF chars = << >> THEN << >>
    ELSE IF Len(chars) >= 4 /\ SubSeq(chars, 1, 4) = CloseTag("action")
    THEN <<"</action>">> \o ReadText(SubSeq(chars, 5, Len(chars)))
    ELSE IF Len(chars) >= 3 /\ SubSeq(chars, 1, 3) = OpenTag("action")
    THEN <<"<action>">> \o ReadText(SubSeq(chars, 4, Len(chars)))
    ELSE <<Head(chars)>> \o ReadText(Tail(chars))

Bool(b) == IF b THEN "true" ELSE "false"

\* json.dumps(action.model_dump()) / yaml.safe_dump(action.model_dump()):
\* the two formats differ in their punctuation.
Dump(action, format) ==
    LET open == IF format = "json" THEN <<"{">> ELSE << >>
        close == IF format = "json" THEN <<"}">> ELSE << >>
    IN open \o <<"name", "'", action.name, "'",
                 "params">> \o open
            \o <<"filepath", "'", action.params.filepath, "'",
                 "query", "'", action.params.query, "'",
                 "message", "'">> \o Written(action.params.message) \o <<"'">>
            \o close
            \o <<"request_heartbeat", Bool(action.request_heartbeat)>> \o close

\* The action wrapped in its delimiters, as the model is asked to write it.
Wrapped(action, format) ==
    OpenTag("action") \o Dump(action, format) \o CloseTag("action")

\* Index of the first occurrence of pattern in chars at or after from, or 0.
RECURSIVE Find(_, _, _)
Find(chars, pattern, from) ==
    IF from + Len(pattern) - 1 > Len(chars) THEN 0
    ELSE IF SubSeq(chars, from, from + Len(pattern) - 1) = pattern THEN from
    ELSE Find(chars, pattern, from + 1)

\* re.findall(r"<tag>(.*?)</tag>", text, flags=re.DOTALL): each region runs
\* from an opening delimiter to the nearest closing delimiter after it.
RECURSIVE findall(_, _)
findall(chars, tag) ==
    LET i == Find(chars, OpenTag(tag), 1)
        j == IF i = 0 THEN 0 ELSE Find(chars, CloseTag(tag), i + 3)
    IN IF i = 0 \/ j = 0 THEN << >>
       ELSE <<SubSeq(chars, i + 3, j - 1)>> \o findall(SubSeq(chars, j + 4, Len(chars)), tag)

\* json.loads / yaml.safe_load followed by Action.model_validate: the
\* document must be complete; anything else is an error.
Loads(doc, format) ==
    LET b == IF format = "json" THEN 1 ELSE 0
        f == 6 + 2 * b          \* position of the key "filepath"
        e == Find(doc, <<"'">>, f + 10)   \* the quote that closes the message
    IN IF /\ Len(doc) >= f + 10
          /\ (b = 1 => doc[1] = "{" /\ doc[f - 1] = "{")
          /\ SubSeq(doc, 1 + b, 2 + b) = <<"name", "'">>
          /\ SubSeq(doc, 4 + b, 5 + b) = <<"'", "params">>
          /\ SubSeq(doc, f, f + 1) = <<"filepath", "'">>
          /\ SubSeq(doc, f + 3, f + 5) = <<"'", "query", "'">>
          /\ SubSeq(doc, f + 7, f + 9) = <<"'", "message", "'">>
          /\ e # 0
          /\ Len(doc) = e + 2 + 2 * b
          /\ (b = 1 => doc[e + 1] = "}" /\ doc[e + 4] = "}")
          /\ doc[e + 1 + b] = "request_heartbeat"
          /\ doc[e + 2 + b] \in {"true", "false"}
       THEN [ok |-> TRUE,
             action |-> Action(doc[3 + b],
                               Params(ReadText(SubSeq(doc, f + 10, e - 1)),
                                      doc[f + 2], doc[f + 6]),
                               doc[e + 2 + b] = "true")]
       ELSE [ok |-> FALSE, action |-> NoAction]

\* JsonToolsManager / YamlToolsManager.parse_tool_calls on a raw response:
\* the regions that load, in order; a region that does not load is logged
\* and skipped.
parse_tool_calls_text(response_text, format) ==
    LET regions == findall(response_text, "action")
        Ok(r) == Loads(r, format).ok
        good == SelectSeq(regions, Ok)
    IN [i \in 1..Len(good) |-> Loads(good[i], format).action]

\* ---------------------------------------------------- functions in isolation
ActionValues ==
    {Action(name, Params(message, "", query), heartbeat) :
        name \in {"send_message", "conversation_search"},
        message \in Texts, query \in {"", "q1"}, heartbeat \in BOOLEAN}

InitRoundTrip ==
    /\ fn = "parse_tool_calls"
    /\ fn_input \in {[action |-> a, format |-> format] :
                        a \in ActionValues, format \in {"json", "yaml"}}
    /\ fn_output = NoOutput

\* An action is serialized, wrapped in its delimiters and parsed.
round_trip ==
    /\ fn = "parse_tool_calls"
    /\ fn_output = NoOutput
    /\ fn_output' = [kind |-> "returned",
                     value |-> parse_tool_calls_text(
                                   Wrapped(fn_input.action, fn_input.format),
                                   fn_input.format)]
    /\ UNCHANGED <<wf_vars, mem_vars, aux_vars, fn, fn_input>>

\* MemoryManagementConfig.OBSERVATIONS_PAGE_SIZE
OBSERVATIONS_PAGE_SIZE == 10

\* str(obv) of an ActionResult: "[{action} - {time of rendering}] {result}";
\* the time of rendering is left out.
Str(obv) == <<"[", obv.action, "]", obv.result>>

\* "\n".join(lines)
RECURSIVE Join(_)
Join(lines) ==
    IF lines = << >> THEN << >>
    ELSE IF Len(lines) = 1 THEN <<lines[1]>>
    ELSE <<Head(lines), "\n">> \o Join(Tail(lines))

\* observations[:page_size]
Oldest(observations_, size) ==
    SubSeq(observations_, 1, IF Len(observations_) < size THEN Len(observations_) ELSE size)

\* observations[-page_size:]
Newest(observations_, size) ==
    SubSeq(observations_,
           IF Len(observations_) > size THEN Len(observations_) - size + 1 ELSE 1,
           Len(observations_))

\* AgentState.build_observations
build_observations(observations_) ==
    IF observations_ = << >> THEN << >>
    ELSE LET shown == Newest(observations_, OBSERVATIONS_PAGE_SIZE)
         IN Join([i \in 1..Len(shown) |-> Str(shown[i])])

\* The i-th result appended during a turn.
NthObservation(i) == ActionResult(<<"Thought", i>>, "conversation_search", <<"Result", i>>)

InitObservations ==
    /\ fn = "build_observations"
    /\ fn_input \in {[i \in 1..n |-> NthObservation(i)] : n \in 0..MaxObservations}
    /\ fn_output = NoOutput

render_observations ==
    /\ fn = "build_observations"
    /\ fn_output = NoOutput
    /\ fn_output' = [kind |-> "returned", value |-> build_observations(fn_input)]
    /\ UNCHANGED <<wf_vars, mem_vars, aux_vars, fn, fn_input>>

\* Parameter maps over the keys "message" and "query", in every insertion order.
ParamValues == {"a", "b"}
ParamMaps ==
    {<< >>}
    \cup {<<<<k, v>>>> : k \in {"message", "query"}, v \in ParamValues}
    \cup {<<<<"message", v>>, <<"query", w>>>> : v \in ParamValues, w \in ParamValues}
    \cup {<<<<"query", w>>, <<"message", v>>>> : v \in ParamValues, w \in ParamValues}

NamedCalls == {[name |-> n, items |-> m] :
                  n \in {"send_message", "conversation_search"}, m \in ParamMaps}

InitToolCallKey ==
    /\ fn = "tool_call_key"
    /\ fn_input \in {<<a, b>> : a \in NamedCalls, b \in NamedCalls}
    /\ fn_output = NoOutput

\* The duplicate-call key of two actions.
tool_call_keys ==
    /\ fn = "tool_call_key"
    /\ fn_output = NoOutput
    /\ fn_output' = [kind |-> "returned",
                     value |-> <<tool_call_key(fn_input[1].name, fn_input[1].items),
                                 tool_call_key(fn_input[2].name, fn_input[2].items)>>]
    /\ UNCHANGED <<wf_vars, mem_vars, aux_vars, fn, fn_input>>

InitFunctions == InitIdle /\ InitNoMemory /\ InitAux /\ (InitRoundTrip \/ InitToolCallKey \/ InitObservations)

NextFunctions ==
    \/ round_trip
    \/ tool_call_keys
    \/ render_observations

SpecFunctions == InitFunctions /\ [][NextFunctions]_vars

\* ------------------------------------------------------------ observations
SentinelCount(items) == Cardinality({i \in DOMAIN items : items[i] = None})

\* The items put before the first end-of-stream sentinel.
RECURSIVE BeforeEnd(_)
BeforeEnd(items) ==
    IF items = << >> \/ Head(items) = None THEN << >>
    ELSE <<Head(items)>> \o BeforeEnd(Tail(items))

FinalChunks(items) ==
    LET IsFinal(c) == c.step = FINAL_RESPONSE IN SelectSeq(items, IsFinal)

ConsumerFinished == cpc \in {"returned", "raised"}

\* The valid actions a response holds, in order.
ActionsOf(out) ==
    LET parsed == ParsedThoughts(extract_tag_content(out, "action"), << >>, 1)
    IN [i \in 1..Len(parsed) |-> parsed[i].action]

\* The response of the n-th thinker step is exactly one action block.
SingleAction(n) ==
    /\ Len(responses) >= n
    /\ Len(extract_tag_content(responses[n].out, "action")) = 1
    /\ Len(ActionsOf(responses[n].out)) = 1

ActionOf(n) == ActionsOf(responses[n].out)[1]

\* What the dispatch of the n-th response's action leaves in the conversation.
OutcomeOf(n) == execute_tool(AgentThought(<< >>, ActionOf(n)), responses[n].collab)

\* ------------------------------------------------------------------ claims

\* C1: on every exit path of a turn the end-of-stream sentinel None is put
\* on stream_queue exactly once: never twice, and once by the time run() is
\* over.
C1_SentinelExactlyOnce ==
    /\ SentinelCount(produced) <= 1
    /\ ConsumerFinished => SentinelCount(produced) = 1

\* C2: the chunks put on stream_queue before the end marker are yielded by
\* run() exactly once and in the order they were put: what has been yielded,
\* followed by what still waits in the queue, is what was produced.
C2_ChunksYieldedInOrder ==
    yielded \o (IF cpc \in {"get", "closed"} THEN BeforeEnd(stream_queue) ELSE << >>)
        = BeforeEnd(produced)

C2_Witness ==
    /\ cpc = "returned"
    /\ Len(yielded) >= 4
    /\ \E i, j \in DOMAIN yielded :
          i < j /\ yielded[i].step = PLANNING /\ yielded[j].step = FINAL_RESPONSE

\* C3: when every model response of a turn fails to parse into an action,
\* the model is invoked at most retryCeiling + 1 = 3 times and the turn ends
\* with a forced fallback final message, not with an error.
AllUnparsable ==
    /\ responses # << >>
    /\ \A i \in DOMAIN responses :
          ActionsOf(responses[i].out) = << >> /\ responses[i].collab = "ok"

C3_ParseFailureFallback ==
    AllUnparsable =>
        /\ model_calls <= 3
        /\ pc = "done" => task = "ok" /\ FinalChunks(produced) # << >>

\* C4: when the first response is a single send_message action with message
\* content m, the model is invoked once, exactly one FINAL_RESPONSE chunk
\* with content m is streamed, the end marker follows it, and
\* handle_final_response is called exactly once.
HappyPath ==
    /\ SingleAction(1)
    /\ ActionOf(1).name = "send_message"
    /\ ActionOf(1).params.message # << >>

C4_HappyPath ==
    HappyPath =>
        /\ model_calls = 1
        /\ persist_calls <= 1
        /\ FinalChunks(produced) \in
              {<< >>, <<StreamChunk(ActionOf(1).params.message, FINAL_RESPONSE)>>}
        /\ pc \in {"parse_actions", "execute_actions", "persist_message_exchange",
                   "finally", "done"}
        /\ pc \in {"persist_message_exchange", "finally", "done"} =>
              FinalChunks(produced) # << >>
        /\ pc \in {"finally", "done"} => persist_calls = 1 /\ task \in {"running", "ok"}
        /\ pc = "done" =>
              /\ SentinelCount(produced) = 1
              /\ Last(produced) = None
              /\ Last(BeforeEnd(produced)).step = FINAL_RESPONSE

C4_Witness ==
    /\ HappyPath
    /\ cpc = "returned"
    /\ FinalChunks(yielded) = <<StreamChunk(<<"m1">>, FINAL_RESPONSE)>>
    /\ persist_calls = 1

\* C5 (as stated): when the first response is a tool action requesting a
\* heartbeat and the second a send_message action, the result of the first
\* action is in the prompt of the second model call and the loop ends after
\* exactly two model invocations.
ToolChain ==
    /\ SingleAction(1)
    /\ ActionOf(1).name # "send_message"
    /\ ActionOf(1).request_heartbeat
    /\ SingleAction(2)
    /\ ActionOf(2).name = "send_message"

FirstOutcomeInSecondPrompt ==
    LET outcome == OutcomeOf(1)
        text == IF outcome.raised
                THEN <<"Error executing action: ">> \o outcome.error
                ELSE outcome.result.result
        history == prompts[2].conversation_history
    IN \E i \in DOMAIN history :
          history[i].content = text /\ history[i].role = "user"

TwoCallsThenEnd ==
    /\ model_calls = 2
    /\ pc \in {"parse_actions", "execute_actions", "persist_message_exchange",
               "finally", "done"}
    /\ pc = "done" => task = "ok"

ExecuteStep == pc = "execute_actions" /\ steps' = steps + 1

C6_PhaseAndRoute ==
    [][ (ExecuteStep /\ dispatch'.outcome = "returned") =>
          LET a == dispatch'.action IN
          /\ phase' = NEED_FINAL <=> a.name = "send_message"
          /\ phase' = NEED_TOOL <=> (a.name # "send_message" /\ a.request_heartbeat)
          /\ phase' = ERROR <=> (a.name # "send_message" /\ ~a.request_heartbeat)
          /\ phase' = NEED_TOOL => pc' = "prompt_builder"
          /\ phase' = NEED_FINAL => pc' = "persist_message_exchange"
          /\ phase' = ERROR => pc' = "error_handler" ]_vars

C6_Witness ==
    /\ dispatch.outcome = "returned"
    /\ dispatch.action = SendM1Heartbeat
    /\ phase = NEED_FINAL
    /\ pc = "persist_message_exchange"

\* C7: when the dispatch of an action raises, execute_actions catches the
\* exception: the task keeps running, the phase becomes NEED_TOOL and the
\* graph continues with prompt_builder.
C7_DispatchExceptionCaught ==
    [][ (ExecuteStep /\ dispatch'.outcome = "raised") =>
          /\ task' = "running"
          /\ phase' = NEED_TOOL
          /\ pc' = "prompt_builder" ]_vars

C7_Witness ==
    /\ dispatch.outcome = "raised"
    /\ dispatch.action = UnknownTool
    /\ pc = "parse_actions"
    /\ model_calls = 2
    /\ task = "running"

\* C8: when a tool handler throws, execute_tool returns an ActionResult
\* carrying the error text, and that result is appended to
\* state.observations like any other result.
HandlerThrew(d) ==
    /\ d.outcome = "raised"
    /\ d.action.name \in tools_by_name
    /\ d.action.name = "conversation_search" => d.action.params.query # ""

C8_HandlerErrorObserved ==
    [][ (ExecuteStep /\ HandlerThrew(dispatch')) =>
          /\ Len(observations') = Len(observations) + 1
          /\ Last(observations').action = dispatch'.action.name ]_vars

\* C9: when the dispatched action has the (name, parameter hash) recorded in
\* last_tool_call for the preceding dispatch, the duplicate is signalled in
\* the next prompt: the prompt carries a warning or a system note.
PromptHasSignal(p) ==
    \/ p.CRITICAL
    \/ \E i \in DOMAIN p.conversation_history : p.conversation_history[i].role = "system"

C9_DuplicateSignalled ==
    (pc = "thinker" /\ dispatch.duplicate) => PromptHasSignal(prompt)

\* C10: when the model keeps requesting continuation, as soon as epochs
\* exceeds the ceiling the phase is forced to NEED_FINAL and the turn ends
\* with a final answer instead of looping on or failing.
KeepsContinuing ==
    \A i \in DOMAIN responses : responses[i] = Step(<<ActionBlock(SearchQ1)>>, "ok")

C10_CeilingForcesFinal ==
    (KeepsContinuing /\ epochs > HardCeiling /\ pc # "execute_actions") =>
        /\ phase = NEED_FINAL
        /\ pc \in {"persist_message_exchange", "finally", "done"}
        /\ task # "exception"
\* C11: once the consumer has stopped iterating run(), no further model
\* invocation and no further tool dispatch is started for the turn.
C11_CancelOnDisconnect ==
    [][ cpc = "closed" =>
          /\ model_calls' = model_calls
          /\ ~(ExecuteStep /\ dispatch'.outcome # "none") ]_vars

\* C12: whenever the router selects persist_message_exchange (the NEED_FINAL
\* path), a send_message action was dispatched in the turn and a
\* FINAL_RESPONSE chunk carrying the answer has already been put on the queue.
C12_FinalBeforePersist ==
    pc = "persist_message_exchange" =>
        /\ last_tool_call[1] = "send_message"
        /\ FinalChunks(produced) # << >>

\* C13: a dispatched action that is neither send_message nor
\* heartbeat-requesting sets the phase to ERROR and hands the turn to
\* error_handler; error_handler invokes the model exactly once, streams its
\* output as FINAL_RESPONSE chunks, dispatches nothing, and the turn then
\* ends: after it no node of the loop runs again.
ErrorExit(a) == a.name # "send_message" /\ ~a.request_heartbeat

ErrorHandlerStep == pc = "error_handler" /\ steps' = steps + 1

C13_ErrorPathEndsTurn ==
    [][ /\ (ExecuteStep /\ dispatch'.outcome = "returned" /\ ErrorExit(dispatch'.action)) =>
              phase' = ERROR /\ pc' = "error_handler"
        /\ ErrorHandlerStep =>
              /\ model_calls' = model_calls + 1
              /\ thoughts' = thoughts /\ dispatch' = dispatch
              /\ pc' = "finally"
              /\ task' = "running" =>
                    \E reply \in ErrorReplies :
                       /\ produced' = produced \o
                             [i \in 1..Len(reply) |-> StreamChunk(<<reply[i]>>, FINAL_RESPONSE)]
                       /\ Last(session_messages').content = reply
        /\ pc \in {"finally", "done"} =>
              /\ pc' \in {"finally", "done"}
              /\ model_calls' = model_calls /\ dispatch' = dispatch ]_vars

C13_Witness ==
    /\ pc = "done" /\ task = "ok"
    /\ dispatch.outcome = "returned" /\ ErrorExit(dispatch.action)
    /\ model_calls = 2
    /\ FinalChunks(produced) = <<StreamChunk(<<"e1">>, FINAL_RESPONSE),
                                 StreamChunk(<<"e2">>, FINAL_RESPONSE)>>

\* C14: when a turn that streamed a final answer has finished, the assistant
\* message handed to persistence next to the user message is exactly the text
\* of the turn's FINAL_RESPONSE chunks.
RECURSIVE StreamedText(_)
StreamedText(chunks) ==
    IF chunks = << >> THEN << >>
    ELSE Head(chunks).content \o StreamedText(Tail(chunks))

C14_PersistedIsStreamed ==
    (pc = "done" /\ task = "ok" /\ FinalChunks(produced) # << >>) =>
        /\ Len(repository) >= 2
        /\ repository[Len(repository) - 1] = SingleMessage(user_message, "user")
        /\ Last(repository) =
              SingleMessage(StreamedText(FinalChunks(produced)), "assistant")

\* C15: the only action ever dispatched is the first action block of the
\* model response of the current iteration; a later block of a response is
\* dispatched neither in its own iteration nor in a later one.
C15_OnlyFirstActionBlock ==
    [][ (ExecuteStep /\ dispatch'.outcome # "none") =>
          LET blocks == extract_tag_content(Last(responses).out, "action")
          IN /\ blocks # << >>
             /\ blocks[1].valid
             /\ dispatch'.action = blocks[1].action ]_vars

\* Number of rows of the collection a paginated operation was run against.
CollectionSize(op) ==
    IF op = "search_paginated" THEN Len(memory_entries)
    ELSE IF op = "search_conversation_paginated" THEN Len(message_entities)
    ELSE Len(RowsOf(memory_entries, "u1", "persona"))

Ceil(n, d) == (n + d - 1) \div d

\* C16: a request for a page past the last one (page 1 of an empty
\* collection included) returns a result with no items and raises nothing,
\* in search_paginated and in MemoryManagerV3.read.
PastLastPage ==
    /\ mem_result.kind # "none"
    /\ mem_result.op \in {"search_paginated", "read"}
    /\ mem_result.page >
          (IF mem_result.op = "read" THEN CollectionSize("read")
           ELSE Ceil(CollectionSize(mem_result.op), MEMORY_SEARCH_PAGE_SIZE))

C16_PastLastPageIsEmpty ==
    PastLastPage => mem_result.kind = "result" /\ mem_result.results = << >>

\* C17: every paginated result reports total_pages = ceil(total_count /
\* page_size), total_count being the number of items of the whole collection.
C17_TotalPagesIsCeiling ==
    (mem_result.kind = "result"
        /\ mem_result.op \in {"search_paginated", "search_conversation_paginated", "read"}) =>
        /\ mem_result.total_count = CollectionSize(mem_result.op)
        /\ mem_result.total_pages = Ceil(mem_result.total_count, mem_result.page_size)

\* C18: after a write that triggered overflow handling, the memory type's
\* usage is at most 50% of its token budget, and the entries that were
\* there before and survive are a suffix of the previous order.
OfType(memory_deque, memory_type) ==
    LET Match(e) == e.memory_type = memory_type IN SelectSeq(memory_deque, Match)

IsSuffix(s, t) ==
    Len(s) <= Len(t) /\ s = SubSeq(t, Len(t) - Len(s) + 1, Len(t))

C18_EvictionToHalf ==
    (mem_result.kind = "result" /\ mem_result.op = "archival_memory_insert"
        /\ mem_result.overflow) =>
        /\ 2 * Chars(OfType(archival_memory, mem_result.memory_type))
              <= token_limit[mem_result.memory_type] * AVERAGE_TOKEN_SIZE
        /\ IsSuffix(SubSeq(archival_memory, 1, Len(archival_memory) - 1),
                    mem_result.before)

\* C19: under the unique-block discipline, after any sequence of upsert,
\* append, replace and delete there is at most one stored block per
\* (user, memory type).
C19_UniqueBlock ==
    discipline = "v2" =>
        \A user_id \in Users, memory_type \in BlockTypes :
            Len(RowsOf(memory_entries, user_id, memory_type)) <= 1

C19_Witness ==
    /\ discipline = "v2"
    /\ mem_result.kind = "result" /\ mem_result.op = "append_to_memory_block"
    /\ mem_result.existed
    /\ Len(memory_entries) = 2
    /\ \E i \in DOMAIN memory_entries : Len(memory_entries[i].content) = 3

\* C20: under the paginated discipline, after any sequence of appends every
\* stored page holds at most page_size tokens (len(content) // 4).
C20_PageWithinBudget ==
    discipline = "v3" =>
        \A i \in DOMAIN memory_entries :
            _convert_to_token_count(memory_entries[i].content) <= page_size

\* C21: an Action serialized into the configured format and wrapped in the
\* <action> delimiters is parsed back into exactly one Action, equal to the
\* original.
C21_ParserRoundTrip ==
    (fn = "parse_tool_calls" /\ fn_output.kind = "returned") =>
        fn_output.value = <<fn_input.action>>

\* C22: the duplicate-call keys of two actions are equal exactly when the
\* actions have the same name and parameter maps with the same key/value
\* pairs, whatever the order of the keys.
SameItems(m1, m2) == {m1[i] : i \in DOMAIN m1} = {m2[i] : i \in DOMAIN m2}

C22_KeyIgnoresOrderOnly ==
    (fn = "tool_call_key" /\ fn_output.kind = "returned") =>
        (fn_output.value[1] = fn_output.value[2]
            <=> (fn_input[1].name = fn_input[2].name
                 /\ SameItems(fn_input[1].items, fn_input[2].items)))

C22_Witness ==
    /\ fn = "tool_call_key" /\ fn_output.kind = "returned"
    /\ fn_input[1].items # fn_input[2].items
    /\ SameItems(fn_input[1].items, fn_input[2].items)
    /\ fn_output.value[1] = fn_output.value[2]

\* C23: memory_block_replace, memory_block_read and memory_block_delete,
\* called for a memory type of which the user has no block, return an
\* ActionResult saying that no memory block was found, create no block and
\* leave the store and state.memory_blocks as they were.
NotFoundTools == {"memory_block_replace", "memory_block_read", "memory_block_delete"}

C23_NotFoundChangesNothing ==
    [][ (/\ mem_result'.kind = "action_result"
         /\ mem_result' # mem_result \/ mem_ops' # mem_ops
         /\ mem_result'.op \in NotFoundTools
         /\ Existing(memory_entries, "u1", mem_result'.memory_type) = << >>) =>
          /\ mem_result'.thought = "Memory block not found"
          /\ memory_entries' = memory_entries
          /\ memory_blocks' = memory_blocks ]_vars

C23_Witness ==
    /\ mem_result.kind = "action_result"
    /\ mem_result.op = "memory_block_replace"
    /\ mem_result.thought = "Memory block not found"
    /\ memory_blocks # << >>
    /\ \E i \in DOMAIN memory_entries : memory_entries[i].user_id = "u2"

\* C24: build_observations renders at most OBSERVATIONS_PAGE_SIZE of the
\* observations, and those are the most recent ones in their original order.
RenderedLines(text) ==
    LET NotBreak(x) == x # "\n" IN SelectSeq(text, NotBreak)

C24_NewestPageRendered ==
    (fn = "build_observations" /\ fn_output.kind = "returned") =>
        LET lines == RenderedLines(fn_output.value)
            n == Len(fn_input)
            k == Len(lines)
        IN /\ k <= OBSERVATIONS_PAGE_SIZE
           /\ k = (IF n < OBSERVATIONS_PAGE_SIZE THEN n ELSE OBSERVATIONS_PAGE_SIZE)
           /\ \A i \in 1..k : lines[i] = Str(fn_input[n - k + i])

C24_Witness ==
    /\ fn = "build_observations" /\ fn_output.kind = "returned"
    /\ Len(fn_input) > OBSERVATIONS_PAGE_SIZE
    /\ Len(RenderedLines(fn_output.value)) = OBSERVATIONS_PAGE_SIZE

\* C25: after every write to a memory block under the unique-block or the
\* paginated discipline, the stored embedding of the block is the embedding
\* of its current content.
C25_EmbeddingOfCurrentContent ==
    discipline \in {"v2", "v3"} =>
        \A i \in DOMAIN memory_entries :
            memory_entries[i].embedding = embed_single_text(memory_entries[i].content)

\* C29: under the paginated discipline a page number means the same page to
\* read, replace and evict: when page p has been read and text on page p is
\* then replaced or evicted, the page that is modified is the page that was
\* read.
C29_SamePageAddressed ==
    [][(/\ mem_result.kind = "result" /\ mem_result.op = "read"
        /\ mem_result.results # << >>
        /\ mem_result'.kind = "result" /\ mem_result'.op \in {"replace", "evict"}
        /\ mem_result'.page = mem_result.page)
       => mem_result'.results[1].id = mem_result.results[1].id]_vars

\* C26: a thinker step starts the model stream at most twice, and twice
\* only after a throttling error of the first stream; a second throttling
\* error, or any other stream error, leaves the step as an error and is not
\* answered by another stream.
ThinkerStep == pc = "thinker" /\ model_calls' = model_calls + 1

C26_ThrottlingRetriedOnce ==
    [][ThinkerStep =>
         LET n == Len(attempts')
         IN /\ n \in 1..2
            /\ \A i \in 1..(n - 1) : attempts'[i].error = THROTTLING
            /\ attempts'[1].error = THROTTLING => n = 2
            /\ attempts'[n].error = "none" => pc' = "parse_actions" /\ task' = "running"
            /\ attempts'[n].error # "none" => pc' = "finally" /\ task' = "exception"]_vars

C26_Witness ==
    /\ Len(attempts) = 2
    /\ attempts[1].error = THROTTLING /\ attempts[2].error = THROTTLING
    /\ task = "exception"

\* C27: after a throttling retry, state.llm_response is exactly the output
\* of the retried stream: nothing received from the failed first stream is
\* part of the text that parse_actions reads.
C27_OnlyRetriedOutput ==
    (Len(attempts) = 2 /\ attempts[2].error = "none") => llm_response = attempts[2].out

\* C28: in KrishnaMiniWorkflow.run and AgenticWorkflow.run the consumer loop
\* always terminates: whether the producer task finishes or fails, the
\* consumer eventually leaves "await stream_queue.get()" for good.
C28_ConsumerLoopTerminates == <>(cpc # "get")

\* C30: after any sequence of register_tool and remove_tool calls, the
\* repeated registrations of every helper construction included, the names
\* in tools_by_name are the names found in the tools_by_category lists, and
\* no name occurs more than once across those lists.
NamesIn(list) == {list[i] : i \in DOMAIN list}

Occurrences(name) ==
    LET Count(list) == Cardinality({i \in DOMAIN list : list[i] = name})
        RECURSIVE Sum(_)
        Sum(cs) == IF cs = {} THEN 0
                   ELSE LET c == CHOOSE x \in cs : TRUE
                        IN Count(registered_by_category[c]) + Sum(cs \ {c})
    IN Sum(ToolCategories)

C30_RegistryConsistent ==
    /\ registered_by_name = UNION {NamesIn(registered_by_category[c]) : c \in ToolCategories}
    /\ \A name \in registered_by_name : Occurrences(name) <= 1

====
